---- MODULE Spec2Model ----
(***************************************************************************)
(* Model of xinterp.Interpolater (src/xinterp/xinterp.py): the accessor    *)
(* methods interp1d, interpn, _interpn and smart, together with the numpy, *)
(* scipy and xarray calls they make.  One call is one action; the state    *)
(* holds the array the accessor wraps, the keyword arguments of the call,  *)
(* and what the call produced (a DataArray or the exception it raised).    *)
(***************************************************************************)
EXTENDS Integers, Sequences, FiniteSets, TLC

VARIABLES obj, vectors, opts, op, res

vars == <<obj, vectors, opts, op, res>>

(***************************************************************************)
(* Bounds of the input space.                                              *)
(***************************************************************************)
MaxExtent == 2
MaxSamples == 2

\* Axis names an array may carry, and those a request may name.
DataAxes == {"x", "y"}
RequestAxes == {"x", "y", "z"}

(***************************************************************************)
(* Small helpers on sequences.                                             *)
(***************************************************************************)
Range(s) == {s[i] : i \in DOMAIN s}

IndexOf(s, e) == CHOOSE i \in DOMAIN s : s[i] = e

SeqMax(s) == IF s = <<>> THEN 0 ELSE CHOOSE m \in Range(s) : \A e \in Range(s) : e <= m

RECURSIVE Prod(_)
Prod(s) == IF s = <<>> THEN 1 ELSE Head(s) * Prod(Tail(s))

Injective(s) == \A i, j \in DOMAIN s : s[i] = s[j] => i = j

InjectiveSeqs(S, n) == UNION {{s \in [1..m -> S] : Injective(s)} : m \in 0..n}

(***************************************************************************)
(* Numbers.  A number is complex; nan marks the result of 0/0.             *)
(***************************************************************************)
Num(r, i) == [nan |-> FALSE, re |-> r, im |-> i]

NaN == [nan |-> TRUE, re |-> 0, im |-> 0]

\* np.real / np.imag of one element
Real(v) == IF v.nan THEN NaN ELSE Num(v.re, 0)

Imag(v) == IF v.nan THEN NaN ELSE Num(v.im, 0)

\* a + 1j * b
AddJ(a, b) == IF a.nan \/ b.nan THEN NaN ELSE Num(a.re - b.im, a.im + b.re)

(***************************************************************************)
(* numpy arrays: a shape and a value for every index tuple (1-based).      *)
(***************************************************************************)
Indices(shape) ==
    {t \in [1..Len(shape) -> 1..SeqMax(shape)] : \A i \in 1..Len(shape) : t[i] <= shape[i]}

\* C-order position (0-based) of an index tuple, and its inverse
RECURSIVE Ravel(_, _)
Ravel(t, shape) ==
    IF t = <<>> THEN 0
    ELSE (Head(t) - 1) * Prod(Tail(shape)) + Ravel(Tail(t), Tail(shape))

RECURSIVE Unravel(_, _)
Unravel(p, shape) ==
    IF shape = <<>> THEN <<>>
    ELSE <<(p \div Prod(Tail(shape))) + 1>> \o Unravel(p % Prod(Tail(shape)), Tail(shape))

\* np.iscomplex(y) somewhere
AnyIsComplex(a) == \E t \in DOMAIN a.val : a.val[t].im # 0

NpReal(a) == [shape |-> a.shape, val |-> [t \in DOMAIN a.val |-> Real(a.val[t])]]

\* np.real written where np.imag was meant
NpImagAsReal(a) == [shape |-> a.shape, val |-> [t \in DOMAIN a.val |-> Real(a.val[t])]]

NpImag(a) == [shape |-> a.shape, val |-> [t \in DOMAIN a.val |-> Imag(a.val[t])]]

NpAddJ(a, b) == [shape |-> a.shape, val |-> [t \in DOMAIN a.val |-> AddJ(a.val[t], b.val[t])]]

\* np.repeat(y, n, axis): every element along the axis is repeated n times
NpRepeat(y, n, ax) ==
    LET shape == [y.shape EXCEPT ![ax] = y.shape[ax] * n]
        Src(t) == [t EXCEPT ![ax] = ((t[ax] - 1) \div n) + 1]
    IN  [shape |-> shape, val |-> [t \in Indices(shape) |-> y.val[Src(t)]]]

\* np.broadcast_to(a, lead + a.shape): new leading axes, values untouched
NpBroadcastTo(a, lead) ==
    LET Src(t) == SubSeq(t, Len(lead) + 1, Len(t))
    IN  [shape |-> lead \o a.shape, val |-> [t \in Indices(lead \o a.shape) |-> a.val[Src(t)]]]

(***************************************************************************)
(* Option values.  fill_value is None, a number, or the string             *)
(* "extrapolate".                                                          *)
(***************************************************************************)
FillNone == [kind |-> "none", val |-> 0]

FillNum(v) == [kind |-> "num", val |-> v]

FillExtrapolate == [kind |-> "extrapolate", val |-> 0]

\* Python truthiness of a fill_value: None and 0 are false
Truthy(fill) == fill.kind = "extrapolate" \/ (fill.kind = "num" /\ fill.val # 0)

(***************************************************************************)
(* Outcomes of a call: a returned DataArray or a raised exception.         *)
(***************************************************************************)
NoData == [shape |-> <<>>, val |-> <<>>]

NoArray == [dims |-> <<>>, coords |-> <<>>, data |-> NoData]

NoTrace == [branch |-> "none", replicated |-> FALSE, primitive |-> "none",
            prim_fill |-> FillNone, prim_bounds_error |-> FALSE]

Raise(exc, trace) == [exc |-> exc, array |-> NoArray, trace |-> trace]

Return(da, trace) == [exc |-> "none", array |-> da, trace |-> trace]

(***************************************************************************)
(* The scipy primitives, linear kind.                                      *)
(***************************************************************************)
Lerp(lo, hi, x0, x1, q) ==
    IF lo.nan \/ hi.nan THEN NaN
    ELSE Num((lo.re * (x1 - q) + hi.re * (q - x0)) \div (x1 - x0),
             (lo.im * (x1 - q) + hi.im * (q - x0)) \div (x1 - x0))

\* the grid interval used for q; the first or last one outside the grid
Segment(x, q) ==
    LET below == {i \in 1..(Len(x) - 1) : x[i] <= q}
    IN  IF below = {} THEN 1 ELSE CHOOSE i \in below : \A j \in below : j <= i

OutOfBounds(x, q) == q < x[1] \/ q > x[Len(x)]

FillValue(fill) == IF fill.kind = "num" THEN Num(fill.val, 0) ELSE NaN

\* scipy.interpolate.interp1d(x, y, axis, bounds_error, fill_value)(xi).
\* On a one-point grid the slope of the linear kind is 0 / 0.
ScipyInterp1d(x, y, ax, bounds_error, fill, xi) ==
    LET extrapolate == fill.kind = "extrapolate"
        shape == [y.shape EXCEPT ![ax] = Len(xi)]
        At(t) ==
            LET q == xi[t[ax]]
                i == Segment(x, q)
            IN  IF ~extrapolate /\ OutOfBounds(x, q) THEN FillValue(fill)
                ELSE IF Len(x) = 1
                     THEN NaN
                     ELSE Lerp(y.val[[t EXCEPT ![ax] = i]], y.val[[t EXCEPT ![ax] = i + 1]],
                               x[i], x[i + 1], q)
    IN  IF extrapolate /\ bounds_error
        THEN [exc |-> "ValueError:extrapolate_and_raise", data |-> NoData]
        ELSE IF ~extrapolate /\ bounds_error /\ \E j \in DOMAIN xi : OutOfBounds(x, xi[j])
        THEN [exc |-> "ValueError:out_of_bounds", data |-> NoData]
        ELSE [exc |-> "none", data |-> [shape |-> shape, val |-> [t \in Indices(shape) |-> At(t)]]]

\* multilinear interpolation of values at the point q, axis by axis
RECURSIVE Multilinear(_, _, _, _)
Multilinear(points, val, q, prefix) ==
    LET k == Len(prefix) + 1
    IN  IF k > Len(points) THEN val[prefix]
        ELSE LET x == points[k]
                 i == Segment(x, q[k])
             IN  Lerp(Multilinear(points, val, q, Append(prefix, i)),
                      Multilinear(points, val, q, Append(prefix, i + 1)),
                      x[i], x[i + 1], q[k])

\* scipy.interpolate.RegularGridInterpolator(points, values, bounds_error,
\* fill_value)(pts): pts is a list of points (0-based), the result is flat.
\* fill_value None extrapolates.
ScipyRegularGrid(points, values, bounds_error, fill, pts) ==
    LET Outside(q) == \E k \in DOMAIN points : OutOfBounds(points[k], q[k])
    IN  IF bounds_error /\ \E p \in DOMAIN pts : Outside(pts[p])
        THEN [exc |-> "ValueError:out_of_bounds", flat |-> <<>>]
        ELSE [exc |-> "none",
              flat |-> [p \in DOMAIN pts |->
                          IF fill.kind = "num" /\ Outside(pts[p]) THEN FillValue(fill)
                          ELSE Multilinear(points, values.val, pts[p], <<>>)]]

(***************************************************************************)
(* xarray: DataArray construction, squeeze and transpose.                  *)
(***************************************************************************)
\* xr.DataArray(data, coords=coords, dims=dims): the dims must be as many
\* as the data has axes and every coordinate as long as its axis.
XrDataArray(data, coords, dims) ==
    IF Len(dims) # Len(data.shape)
    THEN [exc |-> "ValueError:dims_mismatch", array |-> NoArray]
    ELSE IF \E i \in DOMAIN dims : Len(coords[dims[i]]) # data.shape[i]
    THEN [exc |-> "ValueError:conflicting_sizes", array |-> NoArray]
    ELSE [exc |-> "none",
          array |-> [dims |-> dims, coords |-> [k \in Range(dims) |-> coords[k]], data |-> data]]

\* DataArray.squeeze(drop=True): axes of extent 1 go, with their coordinates
XrSqueeze(da) ==
    LET n == Len(da.dims)
        Kept(i) == da.data.shape[i] # 1
        kept == SelectSeq([i \in 1..n |-> i], Kept)
        dims == [j \in 1..Len(kept) |-> da.dims[kept[j]]]
        shape == [j \in 1..Len(kept) |-> da.data.shape[kept[j]]]
        Src(t) == [i \in 1..n |-> IF Kept(i) THEN t[IndexOf(kept, i)] ELSE 1]
    IN  [dims |-> dims, coords |-> [k \in Range(dims) |-> da.coords[k]],
         data |-> [shape |-> shape, val |-> [t \in Indices(shape) |-> da.data.val[Src(t)]]]]

\* the transpose left out: the array keeps the axis order it was built with
XrTransposeOmitted(da, keys) == da

\* DataArray.transpose(*keys): axis j of the result is the axis named keys[j]
XrTranspose(da, keys) ==
    LET shape == [j \in DOMAIN keys |-> da.data.shape[IndexOf(da.dims, keys[j])]]
        Src(t) == [i \in DOMAIN da.dims |-> t[IndexOf(keys, da.dims[i])]]
    IN  [dims |-> keys, coords |-> da.coords,
         data |-> [shape |-> shape, val |-> [t \in Indices(shape) |-> da.data.val[Src(t)]]]]

(***************************************************************************)
(* Interpolater.interp1d                                                   *)
(***************************************************************************)
interp1d(self, bounds_error, fill_value, extend_dims, repeat, vecs) ==
    IF vecs.keys = <<>> THEN Raise("IndexError", NoTrace)
    ELSE
    LET k == vecs.keys[1]
        xi == vecs.val[k]
    IN  IF k \notin Range(self.dims) THEN Raise("ValueError:not_in_tuple", NoTrace)
        ELSE
        LET ax_idx == IndexOf(self.dims, k)
            x == self.coords[k]
            y == self.data
            new_coords == [self.coords EXCEPT ![k] = xi]
            Build(yi, trace) == Return([dims |-> self.dims, coords |-> new_coords, data |-> yi], trace)
        IN  IF repeat /\ y.shape[ax_idx] = 1
            THEN Build(NpRepeat(y, Len(xi), ax_idx), [NoTrace EXCEPT !.replicated = TRUE])
            ELSE
            LET fill == IF ~Truthy(fill_value) THEN FillExtrapolate ELSE fill_value
                trace == [NoTrace EXCEPT !.primitive = "interp1d", !.prim_fill = fill,
                                         !.prim_bounds_error = bounds_error]
            IN  IF AnyIsComplex(y)
                THEN LET f_real == ScipyInterp1d(x, NpReal(y), ax_idx, bounds_error, fill, xi)
                         f_imag == ScipyInterp1d(x, NpImag(y), ax_idx, bounds_error, fill, xi)
                     IN  IF f_real.exc # "none" THEN Raise(f_real.exc, trace)
                         ELSE IF f_imag.exc # "none" THEN Raise(f_imag.exc, trace)
                         ELSE Build(NpAddJ(f_real.data, f_imag.data), trace)
                ELSE LET f == ScipyInterp1d(x, y, ax_idx, bounds_error, fill, xi)
                     IN  IF f.exc # "none" THEN Raise(f.exc, trace)
                         ELSE Build(f.data, trace)

(***************************************************************************)
(* Interpolater._interpn                                                   *)
(***************************************************************************)
\* np.reshape(np.meshgrid(*points_interp, indexing='ij'), (n, prod)).T:
\* the C-order list of the points of the grid
MeshgridPoints(points_interp, output_shape) ==
    [p \in 0..(Prod(output_shape) - 1) |->
        [i \in DOMAIN points_interp |-> points_interp[i][Unravel(p, output_shape)[i]]]]

\* np.reshape(interp_data, output_shape)
NpReshape(flat, output_shape) ==
    [shape |-> output_shape, val |-> [t \in Indices(output_shape) |-> flat[Ravel(t, output_shape)]]]

FlatAddJ(a, b) == [p \in DOMAIN a |-> AddJ(a[p], b[p])]

_interpn(da, bounds_error, fill_value, vecs) ==
    LET points_original == [i \in DOMAIN da.dims |-> da.coords[da.dims[i]]]
        points_interp == [i \in DOMAIN da.dims |-> vecs.val[da.dims[i]]]
        output_shape == [i \in DOMAIN points_interp |-> Len(points_interp[i])]
        pts == MeshgridPoints(points_interp, output_shape)
    IN  IF AnyIsComplex(da.data)
        THEN LET f_real == ScipyRegularGrid(points_original, NpReal(da.data), bounds_error, fill_value, pts)
                 f_imag == ScipyRegularGrid(points_original, NpImag(da.data), bounds_error, fill_value, pts)
             IN  IF f_real.exc # "none" THEN [exc |-> f_real.exc, data |-> NoData]
                 ELSE IF f_imag.exc # "none" THEN [exc |-> f_imag.exc, data |-> NoData]
                 ELSE [exc |-> "none", data |-> NpReshape(FlatAddJ(f_real.flat, f_imag.flat), output_shape)]
        ELSE LET f == ScipyRegularGrid(points_original, da.data, bounds_error, fill_value, pts)
             IN  IF f.exc # "none" THEN [exc |-> f.exc, data |-> NoData]
                 ELSE [exc |-> "none", data |-> NpReshape(f.flat, output_shape)]

(***************************************************************************)
(* Interpolater.interpn                                                    *)
(***************************************************************************)
\* {k: v for k, v in vectors.items() if (k in keys_data) = member}
DictFilter(vecs, keys_data, member) ==
    LET Keep(k) == (k \in Range(keys_data)) = member
        keys == SelectSeq(vecs.keys, Keep)
    IN  [keys |-> keys, val |-> [k \in Range(keys) |-> vecs.val[k]]]

\* tuple(len(x) for x in vectors.values())
VectorsShape(vecs) == [i \in DOMAIN vecs.keys |-> Len(vecs.val[vecs.keys[i]])]

interpn(self, bounds_error, fill_value, extend_dims, vecs) ==
    LET da == XrSqueeze(self)
        keys_interp == vecs.keys
        keys_data == da.dims
        InData(k) == k \in Range(keys_data)
        NotInData(k) == k \notin Range(keys_data)
        Trace(b, called) ==
            IF called
            THEN [NoTrace EXCEPT !.branch = b, !.primitive = "RegularGridInterpolator",
                                 !.prim_fill = fill_value, !.prim_bounds_error = bounds_error]
            ELSE [NoTrace EXCEPT !.branch = b]
    IN  IF keys_data = <<>>
        THEN LET ext_data == NpBroadcastTo(da.data, VectorsShape(vecs))
                 made == XrDataArray(ext_data, vecs.val, vecs.keys)
             IN  IF made.exc # "none" THEN Raise(made.exc, Trace("empty", FALSE))
                 ELSE Return(XrTranspose(made.array, vecs.keys), Trace("empty", FALSE))
        ELSE IF Range(keys_interp) = Range(keys_data)
        THEN LET i_data == _interpn(da, bounds_error, fill_value, vecs)
                 made == XrDataArray(i_data.data, vecs.val, vecs.keys)
             IN  IF i_data.exc # "none" THEN Raise(i_data.exc, Trace("exact", TRUE))
                 ELSE IF made.exc # "none" THEN Raise(made.exc, Trace("exact", TRUE))
                 ELSE Return(made.array, Trace("exact", TRUE))
        ELSE IF Range(keys_data) \subseteq Range(keys_interp) /\ Range(keys_interp) # Range(keys_data)
        THEN IF extend_dims
             THEN LET i_vectors == DictFilter(vecs, keys_data, TRUE)
                      i_keys == SelectSeq(vecs.keys, InData)
                      ext_vectors == DictFilter(vecs, keys_data, FALSE)
                      ext_keys == SelectSeq(vecs.keys, NotInData)
                      i_data == _interpn(da, bounds_error, fill_value, i_vectors)
                      ext_vectors_shape == VectorsShape(ext_vectors)
                      ext_data == NpBroadcastTo(i_data.data, ext_vectors_shape)
                      made == XrDataArray(ext_data, vecs.val, ext_keys \o i_keys)
                  IN  IF i_data.exc # "none" THEN Raise(i_data.exc, Trace("superset", TRUE))
                      ELSE IF made.exc # "none" THEN Raise(made.exc, Trace("superset", TRUE))
                      ELSE Return(XrTranspose(made.array, vecs.keys), Trace("superset", TRUE))
             ELSE Raise("NotImplementedError", Trace("superset", FALSE))
        ELSE IF Range(keys_interp) \subseteq Range(keys_data) /\ Range(keys_interp) # Range(keys_data)
        THEN IF extend_dims
             THEN \* the argument `data` of the _interpn call is an unassigned local
                  Raise("UnboundLocalError", Trace("subset", FALSE))
             ELSE Raise("NotImplementedError", Trace("subset", FALSE))
        ELSE \* no branch assigned data_array
             Raise("UnboundLocalError", Trace("none", FALSE))

(***************************************************************************)
(* Interpolater.smart                                                      *)
(***************************************************************************)
smart(self, bounds_error, fill_value, repeat, extend_dims, vecs) ==
    IF Len(vecs.keys) = 1
    THEN interp1d(self, bounds_error, fill_value, extend_dims, TRUE, vecs)
    ELSE interpn(self, bounds_error, fill_value, extend_dims, vecs)

(***************************************************************************)
(* The input space: the DataArray the accessor wraps, the keyword          *)
(* arguments (the vectors, in the order the caller wrote them) and options. *)
(***************************************************************************)
\* coordinate vector of an axis of extent n: 0, 2, 4, ...
Grid(n) == [i \in 1..n |-> 2 * (i - 1)]

\* n requested sample points: 1, 3, 5, ... (between and beyond grid points)
SampleVector(n) == [i \in 1..n |-> 2 * i - 1]

DataKinds == {"real", "complex"}

\* the value stored at index t: distinct in every cell, not linear in t
Cell(kind, t, shape) ==
    LET r == Ravel(t, shape)
    IN  Num(4 * r * r, IF kind = "complex" THEN 4 * (r + 1) ELSE 0)

MakeArray(dims, shape, kind) ==
    [dims |-> dims,
     coords |-> [k \in Range(dims) |-> Grid(shape[IndexOf(dims, k)])],
     data |-> [shape |-> shape, val |-> [t \in Indices(shape) |-> Cell(kind, t, shape)]]]

Shapes(n) == [1..n -> 1..MaxExtent]

Arrays ==
    UNION {{MakeArray(dims, shape, kind) : shape \in Shapes(Len(dims)), kind \in DataKinds} :
           dims \in InjectiveSeqs(DataAxes, Cardinality(DataAxes))}

\* a request asks for one sample or for MaxSamples of them along an axis
SampleCounts == {1, MaxSamples}

Requests ==
    UNION {{[keys |-> keys, val |-> [k \in Range(keys) |-> SampleVector(n[k])]] :
               n \in [Range(keys) -> SampleCounts]} :
           keys \in InjectiveSeqs(RequestAxes, Cardinality(RequestAxes))}

FillValues == {FillNone, FillNum(0), FillNum(5)}

Options ==
    [bounds_error : BOOLEAN, fill_value : FillValues, extend_dims : BOOLEAN, repeat : BOOLEAN]

NoResult == [exc |-> "none", array |-> NoArray, trace |-> NoTrace]

Init ==
    /\ obj \in Arrays
    /\ vectors \in Requests
    /\ opts \in Options
    /\ op = "none"
    /\ res = NoResult

(***************************************************************************)
(* One action per public method: the caller invokes it on obj.             *)
(***************************************************************************)
CallInterp1d ==
    /\ op = "none"
    /\ op' = "interp1d"
    /\ res' = interp1d(obj, opts.bounds_error, opts.fill_value, opts.extend_dims, opts.repeat, vectors)
    /\ UNCHANGED <<obj, vectors, opts>>

CallInterpn ==
    /\ op = "none"
    /\ op' = "interpn"
    /\ res' = interpn(obj, opts.bounds_error, opts.fill_value, opts.extend_dims, vectors)
    /\ UNCHANGED <<obj, vectors, opts>>

CallSmart ==
    /\ op = "none"
    /\ op' = "smart"
    /\ res' = smart(obj, opts.bounds_error, opts.fill_value, opts.repeat, opts.extend_dims, vectors)
    /\ UNCHANGED <<obj, vectors, opts>>

Next == CallInterp1d \/ CallInterpn \/ CallSmart

Spec == Init /\ [][Next]_vars

(***************************************************************************)
(* Vocabulary of the properties.                                           *)
(***************************************************************************)
\* the array's axis names once the axes of extent 1 are squeezed out
SqueezedAxes == Range(XrSqueeze(obj).dims)

RequestedAxes == Range(vectors.keys)

StrictSubset(S, T) == S \subseteq T /\ S # T

Succeeded == op # "none" /\ res.exc = "none"

\* the exceptions that stand for the error outcomes of the interface
UnsupportedShapeError == "NotImplementedError"

OutOfBoundsError == "ValueError:out_of_bounds"

\* the call returned an array, or refused an out-of-domain query as asked
ReturnedOrOutOfBounds == res.exc = "none" \/ (opts.bounds_error /\ res.exc = OutOfBoundsError)

\* axis i of the result is the i-th request key, as long as its samples
CarriesRequest(da) ==
    /\ da.dims = vectors.keys
    /\ \A i \in DOMAIN vectors.keys :
          /\ da.data.shape[i] = Len(vectors.val[vectors.keys[i]])
          /\ da.coords[vectors.keys[i]] = vectors.val[vectors.keys[i]]

(***************************************************************************)
(* C1: an interpn request whose axis set equals the squeezed axis set of   *)
(* the array succeeds, whatever the order of its keys, and axis i of the   *)
(* result is the i-th request key with as many entries as samples were     *)
(* requested for it.                                                       *)
(***************************************************************************)
C1_ExactMatchShape ==
    (op = "interpn" /\ SqueezedAxes # {} /\ RequestedAxes = SqueezedAxes)
        => /\ ReturnedOrOutOfBounds
           /\ res.exc = "none" => CarriesRequest(res.array)

(***************************************************************************)
(* C2: for a request that strictly extends the squeezed axes, with         *)
(* extend_dims, the output exists for every key order; its slices along    *)
(* the extension axes are all equal, each equals the interpolation over    *)
(* the shared axes alone, and each axis carries its requested samples.     *)
(***************************************************************************)
SharedRequest ==
    LET Shared(k) == k \in SqueezedAxes
        keys == SelectSeq(vectors.keys, Shared)
    IN  [keys |-> keys, val |-> [k \in Range(keys) |-> vectors.val[k]]]

\* the index into the shared-axes result that the output index t lies over
SharedIndex(t) ==
    [j \in DOMAIN SharedRequest.keys |-> t[IndexOf(vectors.keys, SharedRequest.keys[j])]]

C2_BroadcastOverExtension ==
    (op = "interpn" /\ SqueezedAxes # {} /\ StrictSubset(SqueezedAxes, RequestedAxes)
        /\ opts.extend_dims)
        => /\ ReturnedOrOutOfBounds
           /\ res.exc = "none" =>
                LET alone == interpn(obj, opts.bounds_error, opts.fill_value, opts.extend_dims,
                                     SharedRequest)
                    out == res.array.data
                IN  /\ CarriesRequest(res.array)
                    /\ \A t, u \in DOMAIN out.val :
                          SharedIndex(t) = SharedIndex(u) => out.val[t] = out.val[u]
                    /\ alone.exc = "none"
                    /\ \A t \in DOMAIN out.val : out.val[t] = alone.array.data.val[SharedIndex(t)]

(***************************************************************************)
(* C3: an interpn request whose axis set is a strict subset of the         *)
(* squeezed axis set fails with UnsupportedShapeError, with extend_dims    *)
(* true and false alike.                                                   *)
(***************************************************************************)
C3_SubsetUnsupported ==
    (op = "interpn" /\ RequestedAxes # {} /\ StrictSubset(RequestedAxes, SqueezedAxes))
        => res.exc = UnsupportedShapeError

(***************************************************************************)
(* C4: an interpn request that strictly extends the squeezed axis set,     *)
(* the empty one included, fails with UnsupportedShapeError when           *)
(* extend_dims is false.                                                   *)
(***************************************************************************)
C4_SupersetNeedsExtendDims ==
    (op = "interpn" /\ StrictSubset(SqueezedAxes, RequestedAxes) /\ ~opts.extend_dims)
        => res.exc = UnsupportedShapeError

(***************************************************************************)
(* C5: the axis names of a returned array are the keys of the request, in  *)
(* the request's order, whichever method and strategy produced it          *)
(* (interp1d being called with the single key its contract asks for).      *)
(***************************************************************************)
UsesInterp1d == op = "interp1d" \/ (op = "smart" /\ Len(vectors.keys) = 1)

SingleAxisCall ==
    /\ op \in {"interp1d", "smart"}
    /\ Len(vectors.keys) = 1
    /\ vectors.keys[1] \in Range(obj.dims)

C6_RepeatShortcut ==
    SingleAxisCall =>
        LET ax == IndexOf(obj.dims, vectors.keys[1])
            out == res.array.data
        IN  /\ res.trace.replicated <=> (obj.data.shape[ax] = 1 /\ opts.repeat)
            /\ res.trace.replicated =>
                  \A t \in DOMAIN out.val : out.val[t] = obj.data.val[[t EXCEPT ![ax] = 1]]
            /\ ~opts.repeat => res.trace.primitive = "interp1d"

(***************************************************************************)
(* C7: the 1-D strategy hands the primitive "extrapolate" exactly when the *)
(* caller left fill_value unset; a number the caller gave, 0 included,     *)
(* reaches the primitive unchanged and fills the out-of-domain queries.    *)
(***************************************************************************)
C7_FillValuePassedOn ==
    (UsesInterp1d /\ res.trace.primitive = "interp1d") =>
        LET k == vectors.keys[1]
            ax == IndexOf(obj.dims, k)
            out == res.array.data
        IN  /\ res.trace.prim_fill = FillExtrapolate <=> opts.fill_value = FillNone
            /\ opts.fill_value.kind = "num" => res.trace.prim_fill = opts.fill_value
            /\ (opts.fill_value.kind = "num" /\ res.exc = "none" /\ ~AnyIsComplex(obj.data)) =>
                  \A t \in DOMAIN out.val :
                      OutOfBounds(obj.coords[k], vectors.val[k][t[ax]])
                          => out.val[t] = Num(opts.fill_value.val, 0)

(***************************************************************************)
(* C8: a request that names no axis fails (any exception is taken for the  *)
(* ConfigurationError) and returns no array, through every method and for  *)
(* every array.                                                            *)
(***************************************************************************)
C8_EmptyRequestFails ==
    (op # "none" /\ vectors.keys = <<>>) => (res.exc # "none" /\ res.array = NoArray)

(***************************************************************************)
(* C9: for an array with complex values the result of every method is,     *)
(* element by element, the result for the real part plus 1j times the      *)
(* result for the imaginary part, both obtained with the same request and  *)
(* options; the three calls also fail alike.                               *)
(***************************************************************************)
Call(a) ==
    CASE op = "interp1d" ->
            interp1d(a, opts.bounds_error, opts.fill_value, opts.extend_dims, opts.repeat, vectors)
      [] op = "interpn" ->
            interpn(a, opts.bounds_error, opts.fill_value, opts.extend_dims, vectors)
      [] op = "smart" ->
            smart(a, opts.bounds_error, opts.fill_value, opts.repeat, opts.extend_dims, vectors)

\* the real array of the real parts, or of the imaginary parts, of da
PartOf(da, part) ==
    [da EXCEPT !.data = [shape |-> da.data.shape,
                         val |-> [t \in DOMAIN da.data.val |->
                                    Num(IF part = "real" THEN da.data.val[t].re
                                        ELSE da.data.val[t].im, 0)]]]

Superpose(a, b) == IF a.nan \/ b.nan THEN NaN ELSE Num(a.re, b.re)

C9_ComplexSuperposition ==
    (op # "none" /\ AnyIsComplex(obj.data)) =>
        LET re == Call(PartOf(obj, "real"))
            im == Call(PartOf(obj, "imag"))
            out == res.array.data
        IN  /\ res.exc = re.exc
            /\ res.exc = im.exc
            /\ res.array.dims = re.array.dims
            /\ res.array.coords = re.array.coords
            /\ out.shape = re.array.data.shape
            /\ DOMAIN out.val = DOMAIN re.array.data.val
            /\ \A t \in DOMAIN out.val :
                  out.val[t] = Superpose(re.array.data.val[t], im.array.data.val[t])

\* a complex array went through the N-D strategy and came out complex
C9_Witness ==
    /\ op = "interpn"
    /\ AnyIsComplex(obj.data)
    /\ Succeeded
    /\ res.trace.branch = "exact"
    /\ Len(res.array.dims) = 2
    /\ \E t \in DOMAIN res.array.data.val :
          res.array.data.val[t].im # 0 /\ res.array.data.val[t].re # 0

(***************************************************************************)
(* C10: for a request of two or more axes interpn selects one of its four  *)
(* cases and ends with an array, an UnsupportedShapeError or an            *)
(* OutOfBoundsError, also when request and array each have an axis the     *)
(* other lacks.                                                            *)
(***************************************************************************)
C10_ClassificationTotal ==
    (op = "interpn" /\ Len(vectors.keys) >= 2) =>
        /\ res.trace.branch \in {"empty", "exact", "superset", "subset"}
        /\ res.exc \in {"none", UnsupportedShapeError, OutOfBoundsError}

====
